---- MODULE Spec2Model ----
(***************************************************************************)
(* Model of the notebook "NetCDF to Hyper.ipynb": a NetCDF grid is read,   *)
(* walked cell by cell into two record lists (data, data_geom) and the two  *)
(* lists are written into a .hyper database with the Tableau Hyper API.     *)
(*                                                                          *)
(* One action per statement of the notebook; the position in the notebook   *)
(* is pc.  The contents of the input file are chosen in Init.               *)
(***************************************************************************)
EXTENDS Integers, Sequences, FiniteSets, TLC

\* ---------------------------------------------------------------- bounds
MaxRows == 2
MaxCols == 2
MaxSteps == 2
MaxRuns == 2
\* The masks tried have at most MaxMasked masked triples, or at most
\* MaxMasked triples that are not masked.
MaxMasked == 1
\* The inputs tried have at most MaxTriples (time step, row, column) triples.
MaxTriples == 8
\* The ids of the cells with row and column up to MaxIndex are compared.
MaxIndex == 12

\* ------------------------------------------------------- the input file
\* What netCDF4.Dataset(INPUT_NETCDF) finds at the input path.
FileKinds == {"ok", "no_northing", "unreadable"}

VARIABLES
    fileKind,    \* kind of file at INPUT_NETCDF
    rows,        \* size of the northing dimension in the file
    cols,        \* size of the easting dimension in the file
    nsteps,      \* end value of the range in the first for statement: 1 in
                 \* the notebook, len(times) to go through all of the data
    mask,        \* set of <<t, y, x>> where SMI[t].mask[y][x] is True
    preexisting, \* TRUE when OUTPUT_HYPER existed before the first run
    pc,          \* position in the notebook
    failedStage, \* stage whose statement raised ("none" when nothing raised)
    ncOpen,      \* nc is bound to an open netCDF4.Dataset
    y_size, x_size,
    i, x, y,     \* the three loop variables
    data, data_geom,
    hyperOpen,   \* the HyperProcess is running
    connOpen,    \* the Connection is open
    exc,         \* an exception is propagating out of the with blocks
    db,          \* contents of the file at OUTPUT_HYPER
    runs,        \* number of runs of the notebook started so far
    visits,      \* history: the <<i, y, x>> the loop body was entered with
    firstOutput  \* history: completed runs; db and lists when the first completed

inputVars == <<fileKind, rows, cols, nsteps, mask, preexisting>>
vars == <<fileKind, rows, cols, nsteps, mask, preexisting, pc, failedStage,
          ncOpen, y_size, x_size, i, x, y, data, data_geom, hyperOpen,
          connOpen, exc, db, runs, visits, firstOutput>>

\* Contents of the variables of the file.  lat and lon are indexed
\* (northing, easting), SMI (time, northing, easting), time (time); every
\* entry is different so that a record shows which entry it was read from.
latAt(yy, xx) == 1000 + 10 * yy + xx
lonAt(yy, xx) == 2000 + 10 * yy + xx
timeAt(t) == 100 + t
smiAt(t, yy, xx) == 3000 + 100 * t + 10 * yy + xx
isMasked(t, yy, xx) == <<t, yy, xx>> \in mask

\* Variant: the id is built from the row alone.
combine_row(yy, xx) == ToString(yy) \o "-"

\* f'{y}-{x}'
combine(yy, xx) == ToString(yy) \o "-" \o ToString(xx)

\* ------------------------------------------------------ the output file
NoDb == [exists |-> FALSE, schemas |-> {}, tables |-> {},
         dataRows |-> <<>>, geomRows |-> <<>>]
EmptyDb == [exists |-> TRUE, schemas |-> {}, tables |-> {},
            dataRows |-> <<>>, geomRows |-> <<>>]
OldDb == [exists |-> TRUE, schemas |-> {"Data", "Geom"},
          tables |-> {"Data.Data", "Geom.Geom"},
          dataRows |-> << <<"9-9", 99, 9999>> >>,
          geomRows |-> << <<"9-9", 999, 999>> >>]

NoOutput == [n |-> 0, db |-> NoDb, data |-> <<>>, data_geom |-> <<>>]

\* The index triples of SMI for n time steps on an r x c grid, and the masks
\* tried on them.
TriplesOf(n, r, c) == (0..(n - 1)) \X (0..(r - 1)) \X (0..(c - 1))
Masks(n, r, c) ==
    {m \in SUBSET TriplesOf(n, r, c) :
        \/ Cardinality(m) <= MaxMasked
        \/ Cardinality(TriplesOf(n, r, c) \ m) <= MaxMasked}

Init ==
    /\ fileKind \in FileKinds
    /\ rows \in 0..MaxRows
    /\ cols \in 0..MaxCols
    /\ nsteps \in 0..MaxSteps
    /\ nsteps * rows * cols <= MaxTriples
    /\ mask \in Masks(nsteps, rows, cols)
    /\ preexisting \in BOOLEAN
    /\ pc = "open_nc"
    /\ failedStage = "none"
    /\ ncOpen = FALSE
    /\ y_size = 0 /\ x_size = 0
    /\ i = 0 /\ x = 0 /\ y = 0
    /\ data = <<>> /\ data_geom = <<>>
    /\ hyperOpen = FALSE /\ connOpen = FALSE /\ exc = FALSE
    /\ db = IF preexisting THEN OldDb ELSE NoDb
    /\ runs = 1
    /\ visits = <<>>
    /\ firstOutput = NoOutput

\* nc = netCDF4.Dataset(INPUT_NETCDF)
OpenDataset ==
    /\ pc = "open_nc"
    /\ IF fileKind = "unreadable"
         THEN /\ pc' = "failed" /\ failedStage' = "read"
              /\ UNCHANGED ncOpen
         ELSE /\ pc' = "dims" /\ ncOpen' = TRUE
              /\ UNCHANGED failedStage
    /\ UNCHANGED <<inputVars, y_size, x_size, i, x, y, data, data_geom,
                   hyperOpen, connOpen, exc, db, runs, visits, firstOutput>>

\* Variant: a missing dimension is read as a dimension of size 0.
ReadNorthing_default ==
    /\ pc = "dims"
    /\ pc' = "dims_x"
    /\ y_size' = IF fileKind = "no_northing" THEN 0 ELSE rows
    /\ UNCHANGED <<inputVars, failedStage, ncOpen, x_size, i, x, y, data,
                   data_geom, hyperOpen, connOpen, exc, db, runs, visits,
                   firstOutput>>

\* y_size = nc.dimensions['northing'].size
ReadNorthing ==
    /\ pc = "dims"
    /\ IF fileKind = "no_northing"
         THEN /\ pc' = "failed" /\ failedStage' = "read"
              /\ UNCHANGED y_size
         ELSE /\ pc' = "dims_x" /\ y_size' = rows
              /\ UNCHANGED failedStage
    /\ UNCHANGED <<inputVars, ncOpen, x_size, i, x, y, data, data_geom,
                   hyperOpen, connOpen, exc, db, runs, visits, firstOutput>>

\* x_size = nc.dimensions['easting'].size
ReadEasting ==
    /\ pc = "dims_x"
    /\ x_size' = cols
    /\ pc' = "reset"
    /\ UNCHANGED <<inputVars, failedStage, ncOpen, y_size, i, x, y, data,
                   data_geom, hyperOpen, connOpen, exc, db, runs, visits,
                   firstOutput>>

\* Variant: the two lists are not emptied before the loop.
ResetLists_keep ==
    /\ pc = "reset"
    /\ i' = 0
    /\ visits' = <<>>
    /\ pc' = "for_i"
    /\ UNCHANGED <<inputVars, failedStage, ncOpen, y_size, x_size, x, y, data,
                   data_geom, hyperOpen, connOpen, exc, db, runs, firstOutput>>

\* data = [] ; data_geom = []
ResetLists ==
    /\ pc = "reset"
    /\ data' = <<>>
    /\ data_geom' = <<>>
    /\ i' = 0
    /\ visits' = <<>>
    /\ pc' = "for_i"
    /\ UNCHANGED <<inputVars, failedStage, ncOpen, y_size, x_size, x, y,
                   hyperOpen, connOpen, exc, db, runs, firstOutput>>

\* Variant: the range is taken to include its end value.
InTimeRange_inclusive(t) == t <= nsteps

\* range(0, nsteps) still has the value t
InTimeRange(t) == t < nsteps

\* Variant: the column loop is bounded by the row count.
InColRange_rows(xx) == xx < y_size

\* range(0, x_size) still has the value xx
InColRange(xx) == xx < x_size

\* range(0, y_size) still has the value yy
InRowRange(yy) == yy < y_size

\* for i in range(0, nsteps):
TimeLoopHead ==
    /\ pc = "for_i"
    /\ IF InTimeRange(i)
         THEN /\ x' = 0 /\ pc' = "for_x"
         ELSE /\ pc' = "hyper_open" /\ UNCHANGED x
    /\ UNCHANGED <<inputVars, failedStage, ncOpen, y_size, x_size, i, y, data,
                   data_geom, hyperOpen, connOpen, exc, db, runs, visits,
                   firstOutput>>

\* for x in range(0, x_size):
ColLoopHead ==
    /\ pc = "for_x"
    /\ IF InColRange(x)
         THEN /\ y' = 0 /\ pc' = "for_y" /\ UNCHANGED i
         ELSE /\ i' = i + 1 /\ pc' = "for_i" /\ UNCHANGED y
    /\ UNCHANGED <<inputVars, failedStage, ncOpen, y_size, x_size, x, data,
                   data_geom, hyperOpen, connOpen, exc, db, runs, visits,
                   firstOutput>>

\* for y in range(0, y_size):
RowLoopHead ==
    /\ pc = "for_y"
    /\ IF InRowRange(y)
         THEN /\ pc' = "body" /\ UNCHANGED x
         ELSE /\ x' = x + 1 /\ pc' = "for_x"
    /\ UNCHANGED <<inputVars, failedStage, ncOpen, y_size, x_size, i, y, data,
                   data_geom, hyperOpen, connOpen, exc, db, runs, visits,
                   firstOutput>>

\* An index pair the (northing, easting) arrays of the file accept.
InGrid(yy, xx) == yy \in 0..(rows - 1) /\ xx \in 0..(cols - 1)

\* Variant: the geometry is collected at every time step.
FirstStep_always(t) == t >= 0

\* if i == 0:
FirstStep(t) == t = 0

\* [f'{y}-{x}', nc.variables['lat'][y][x], nc.variables['lon'][y][x]]
GeomRecord(yy, xx) == <<combine(yy, xx), latAt(yy, xx), lonAt(yy, xx)>>

\* Variant: the loop index is stored instead of the time value.
TimeOf_index(t) == t

\* nc.variables['time'][i]
TimeOf(t) == timeAt(t)

\* [f'{y}-{x}', nc.variables['time'][i], nc.variables['SMI'][i][y][x]]
DataRecord(t, yy, xx) == <<combine(yy, xx), TimeOf(t), smiAt(t, yy, xx)>>

\* Variant: the mask is indexed [x][y].
NotMasked_transposed(t, yy, xx) == ~isMasked(t, xx, yy)

\* nc.variables['SMI'][i].mask[y][x] == False
NotMasked(t, yy, xx) == ~isMasked(t, yy, xx)

\* The body of the innermost loop; an index outside the arrays raises
\* IndexError, which ends the run.
LoopBody ==
    /\ pc = "body"
    /\ visits' = Append(visits, <<i, y, x>>)
    /\ IF InGrid(y, x)
         THEN /\ data_geom' = IF FirstStep(i)
                                THEN Append(data_geom, GeomRecord(y, x))
                                ELSE data_geom
              /\ data' = IF NotMasked(i, y, x)
                           THEN Append(data, DataRecord(i, y, x))
                           ELSE data
              /\ y' = y + 1
              /\ pc' = "for_y"
              /\ UNCHANGED failedStage
         ELSE /\ pc' = "failed" /\ failedStage' = "extract"
              /\ UNCHANGED <<data, data_geom, y>>
    /\ UNCHANGED <<inputVars, ncOpen, y_size, x_size, i, x, hyperOpen,
                   connOpen, exc, db, runs, firstOutput>>

\* with HyperProcess(telemetry=...) as hyper:
OpenHyper ==
    /\ pc = "hyper_open"
    /\ \E ok \in BOOLEAN :
         IF ok
           THEN /\ hyperOpen' = TRUE /\ pc' = "conn_open"
                /\ UNCHANGED failedStage
           ELSE /\ pc' = "failed" /\ failedStage' = "write"
                /\ UNCHANGED hyperOpen
    /\ UNCHANGED <<inputVars, ncOpen, y_size, x_size, i, x, y, data,
                   data_geom, connOpen, exc, db, runs, visits, firstOutput>>

\* with Connection(endpoint=hyper.endpoint,
\*                 create_mode=CreateMode.CREATE_AND_REPLACE,
\*                 database=OUTPUT_HYPER) as connection:
OpenConnection ==
    /\ pc = "conn_open"
    /\ \E ok \in BOOLEAN :
         IF ok
           THEN /\ connOpen' = TRUE /\ db' = EmptyDb
                /\ pc' = "schema_data"
                /\ UNCHANGED exc
           ELSE /\ exc' = TRUE /\ pc' = "exit_hyper"
                /\ UNCHANGED <<connOpen, db>>
    /\ UNCHANGED <<inputVars, failedStage, ncOpen, y_size, x_size, i, x, y,
                   data, data_geom, hyperOpen, runs, visits, firstOutput>>

\* Variant: the statements are not inside with blocks, so that an exception
\* leaves them without closing anything.
WriteStep_unscoped(atPc, newDb, nextPc) ==
    /\ pc = atPc
    /\ \E ok \in BOOLEAN :
         IF ok
           THEN /\ db' = newDb /\ pc' = nextPc
                /\ UNCHANGED <<exc, failedStage>>
           ELSE /\ exc' = TRUE /\ pc' = "failed" /\ failedStage' = "write"
                /\ UNCHANGED db
    /\ UNCHANGED <<inputVars, ncOpen, y_size, x_size, i, x, y, data,
                   data_geom, hyperOpen, connOpen, runs, visits, firstOutput>>

\* A statement inside the with Connection block: it either changes the
\* database to newDb and goes on to nextPc, or raises.
WriteStep(atPc, newDb, nextPc) ==
    /\ pc = atPc
    /\ \E ok \in BOOLEAN :
         IF ok
           THEN /\ db' = newDb /\ pc' = nextPc /\ UNCHANGED exc
           ELSE /\ exc' = TRUE /\ pc' = "exit_conn" /\ UNCHANGED db
    /\ UNCHANGED <<inputVars, failedStage, ncOpen, y_size, x_size, i, x, y,
                   data, data_geom, hyperOpen, connOpen, runs, visits,
                   firstOutput>>

\* connection.catalog.create_schema('Data')
CreateSchemaData ==
    WriteStep("schema_data",
              [db EXCEPT !.schemas = @ \cup {"Data"}], "schema_geom")

\* connection.catalog.create_schema('Geom')
CreateSchemaGeom ==
    WriteStep("schema_geom",
              [db EXCEPT !.schemas = @ \cup {"Geom"}], "table_data")

\* connection.catalog.create_table(schema_data)
CreateTableData ==
    WriteStep("table_data",
              [db EXCEPT !.tables = @ \cup {"Data.Data"}], "table_geom")

\* connection.catalog.create_table(schema_geom)
CreateTableGeom ==
    WriteStep("table_geom",
              [db EXCEPT !.tables = @ \cup {"Geom.Geom"}], "insert_data")

\* with Inserter(connection, schema_data) as inserter:
\*     inserter.add_rows(data) ; inserter.execute()
InsertData ==
    WriteStep("insert_data",
              [db EXCEPT !.dataRows = @ \o data], "insert_geom")

\* with Inserter(connection, schema_geom) as inserter:
\*     inserter.add_rows(data_geom) ; inserter.execute()
InsertGeom ==
    WriteStep("insert_geom",
              [db EXCEPT !.geomRows = @ \o data_geom], "exit_conn")

\* Leaving the with Connection block, normally or with an exception.
CloseConnection ==
    /\ pc = "exit_conn"
    /\ connOpen' = FALSE
    /\ pc' = "exit_hyper"
    /\ UNCHANGED <<inputVars, failedStage, ncOpen, y_size, x_size, i, x, y,
                   data, data_geom, hyperOpen, exc, db, runs, visits,
                   firstOutput>>

\* Leaving the with HyperProcess block, normally or with an exception.
CloseHyper ==
    /\ pc = "exit_hyper"
    /\ hyperOpen' = FALSE
    /\ IF exc
         THEN /\ pc' = "failed" /\ failedStage' = "write"
              /\ UNCHANGED firstOutput
         ELSE /\ pc' = "done"
              /\ firstOutput' = IF firstOutput.n > 0
                                  THEN [firstOutput EXCEPT !.n = @ + 1]
                                  ELSE [n |-> 1, db |-> db, data |-> data,
                                        data_geom |-> data_geom]
              /\ UNCHANGED failedStage
    /\ UNCHANGED <<inputVars, ncOpen, y_size, x_size, i, x, y, data,
                   data_geom, connOpen, exc, db, runs, visits>>

\* After a complete run the notebook is run again from its first cell in the
\* same kernel, against the same input file and the same output path.
Rerun ==
    /\ pc = "done"
    /\ runs < MaxRuns
    /\ runs' = runs + 1
    /\ pc' = "open_nc"
    /\ failedStage' = "none"
    /\ exc' = FALSE
    /\ UNCHANGED <<inputVars, ncOpen, y_size, x_size, i, x, y, data,
                   data_geom, hyperOpen, connOpen, db, visits, firstOutput>>

Next ==
    \/ OpenDataset
    \/ ReadNorthing
    \/ ReadEasting
    \/ ResetLists
    \/ TimeLoopHead
    \/ ColLoopHead
    \/ RowLoopHead
    \/ LoopBody
    \/ OpenHyper
    \/ OpenConnection
    \/ CreateSchemaData
    \/ CreateSchemaGeom
    \/ CreateTableData
    \/ CreateTableGeom
    \/ InsertData
    \/ InsertGeom
    \/ CloseConnection
    \/ CloseHyper
    \/ Rerun

Spec == Init /\ [][Next]_vars

\* The notebook is one thread of control: a statement that can run does run.
LiveSpec == Spec /\ WF_vars(Next)

\* ------------------------------------------------------------ properties
WriterPcs == {"hyper_open", "conn_open", "schema_data", "schema_geom",
              "table_data", "table_geom", "insert_data", "insert_geom",
              "exit_conn", "exit_hyper"}

\* The for statement over the time steps has been left.
LoopFinished ==
    \/ pc \in WriterPcs \cup {"done"}
    \/ pc = "failed" /\ failedStage = "write"

Triples == TriplesOf(nsteps, rows, cols)

IdOf(yy, xx) == ToString(yy) \o "-" \o ToString(xx)

HasRecord(t, yy, xx) ==
    \E k \in 1..Len(data) :
        data[k] = <<IdOf(yy, xx), timeAt(t), smiAt(t, yy, xx)>>

\* C1: after the extraction loop, the measurement list holds a record for
\* (t, y, x) exactly when the mask is false at (t, y, x), and it holds nothing
\* else: one record per unmasked triple of the selected range.
C1_RecordIffNotMasked ==
    LoopFinished =>
        /\ \A tr \in Triples : HasRecord(tr[1], tr[2], tr[3]) <=> tr \notin mask
        /\ Len(data) = Cardinality(Triples \ mask)

C1_Witness ==
    /\ pc = "done"
    /\ nsteps = 2 /\ rows = 2 /\ cols = 2
    /\ <<1, 0, 1>> \in mask /\ <<0, 0, 1>> \notin mask
    /\ <<1, 1, 0>> \notin mask

IdsKeepCellsApart ==
    \A a, b, c, d \in 0..MaxIndex :
        combine(a, b) = combine(c, d) => (a = c /\ b = d)

\* C3: after the extraction loop, the id of every measurement record is the
\* id of exactly one geometry record; the id of a cell is the id of no other
\* cell (compared once, before the first statement, on the empty input).
C3_IdMatchesOneGeom ==
    /\ LoopFinished =>
          \A k \in 1..Len(data) :
              Cardinality({j \in 1..Len(data_geom) :
                              data_geom[j][1] = data[k][1]}) = 1
    /\ (pc = "open_nc" /\ runs = 1 /\ rows = 0 /\ cols = 0 /\ nsteps = 0)
          => IdsKeepCellsApart

C3_Witness ==
    /\ pc = "done"
    /\ nsteps >= 2 /\ rows >= 2 /\ cols >= 2
    /\ Len(data) >= 5

BothTables == {"Data.Data", "Geom.Geom"}

GeomVisits == SelectSeq(visits, LAMBDA v : v[1] = 0)
DataVisits == SelectSeq(visits, LAMBDA v : v \notin mask)

Scenario ==
    /\ rows = 2 /\ cols = 2 /\ nsteps = 1
    /\ mask = {<<0, 0, 1>>}

\* C5: every record carries the values of the cell it is named after: the
\* geometry list is, cell by cell in the order visited at the first time
\* step, <<id(y, x), lat[y][x], lon[y][x]>>, and the measurement list is, for
\* the unmasked (t, y, x) in the order visited,
\* <<id(y, x), time[t], SMI[t][y][x]>>; the 2 x 2 grid with the one time step
\* 100 and cell (0, 1) masked ends with the four ids and three measurement
\* records, all at time 100.
C5_RecordValues ==
    /\ data_geom =
         [k \in 1..Len(GeomVisits) |->
            <<IdOf(GeomVisits[k][2], GeomVisits[k][3]),
              latAt(GeomVisits[k][2], GeomVisits[k][3]),
              lonAt(GeomVisits[k][2], GeomVisits[k][3])>>]
    /\ data =
         [k \in 1..Len(DataVisits) |->
            <<IdOf(DataVisits[k][2], DataVisits[k][3]),
              timeAt(DataVisits[k][1]),
              smiAt(DataVisits[k][1], DataVisits[k][2], DataVisits[k][3])>>]
    /\ (Scenario /\ LoopFinished) =>
         /\ Len(data_geom) = 4
         /\ {data_geom[k][1] : k \in 1..4} = {"0-0", "0-1", "1-0", "1-1"}
         /\ Len(data) = 3
         /\ {data[k][1] : k \in 1..3} = {"0-0", "1-0", "1-1"}
         /\ \A k \in 1..3 : data[k][2] = 100

C5_Witness == Scenario /\ pc = "done"

\* C6: a second complete run against the same input and output path ends
\* with the database, and the two lists, as they were at the end of the first.
C6_SecondRunSameOutput ==
    (pc = "done" /\ firstOutput.n >= 1) =>
        /\ db = firstOutput.db
        /\ data = firstOutput.data
        /\ data_geom = firstOutput.data_geom

C6_Witness ==
    /\ pc = "done" /\ firstOutput.n = 2
    /\ preexisting
    /\ Len(db.dataRows) >= 2 /\ Len(db.geomRows) >= 4

\* C7: with an input file without the northing dimension the run gets no
\* further than the read stage: it fails there, the loop body never runs, the
\* writer opens nothing, and the output file stays as it was before the run.
C7_MissingDimensionStopsInRead ==
    fileKind = "no_northing" =>
        /\ pc \in {"open_nc", "dims", "failed"}
        /\ pc = "failed" => failedStage = "read"
        /\ visits = <<>>
        /\ ~hyperOpen /\ ~connOpen
        /\ db = IF preexisting THEN OldDb ELSE NoDb

C7_Witness ==
    /\ fileKind = "no_northing" /\ pc = "failed"
    /\ preexisting

\* C8: the input file handle is closed by the time a run that completed the
\* extraction ends.
C8_HandleReleased ==
    pc = "done" => ~ncOpen

\* C9: no run ends with the connection or the writer process open, whether
\* the write stage ends normally or with an error raised inside it.
C9_WriterReleased ==
    pc \in {"done", "failed"} => (~connOpen /\ ~hyperOpen)

C9_Witness ==
    /\ pc = "failed" /\ failedStage = "write"
    /\ ~preexisting /\ runs = 1
    /\ db.tables = BothTables

VisitsOK ==
    /\ \A k \in 1..Len(visits) : visits[k] \in Triples
    /\ \A j, k \in 1..Len(visits) :
         j < k => /\ visits[j] # visits[k]
                  /\ visits[j][1] <= visits[k][1]
    /\ failedStage # "extract"
    /\ (hyperOpen \/ connOpen) => pc \in WriterPcs
    /\ LoopFinished =>
         /\ {visits[k] : k \in 1..Len(visits)} = Triples
         /\ Len(visits) = Cardinality(Triples)

\* C10: the extraction loop terminates; it takes the time steps in ascending
\* order, visits every cell of the grid exactly once per time step, with
\* indices inside the dimension sizes only, and the writer starts only after
\* the loop has finished.
C10_LoopVisitsAllThenWrites ==
    /\ []VisitsOK
    /\ (pc = "for_i") ~> LoopFinished

C10_Witness ==
    /\ pc = "done"
    /\ Len(visits) >= 8
====
